---- MODULE Spec2Model ----
(***************************************************************************)
(* A model of the server-room Server Store (src/src/server_store.rs,       *)
(* src/src/server.rs): the persisted list of servers, the in-memory store  *)
(* each invocation loads from it, and the operations that clone the store, *)
(* change the clone and flush it.                                          *)
(*                                                                         *)
(* Strings are sequences of byte values ("/" = 47, "a" = 97, "b" = 98,     *)
(* "s" = 115), so that String::cmp and PathBuf::join are computed, not     *)
(* assumed.  A path is the sequence of its components, an absolute path    *)
(* starting with the root component <<47>>; PathBuf equality compares      *)
(* components, which is equality of these sequences.                       *)
(*                                                                         *)
(* A frecency f is stored as exp(f) measured with the half-life as the     *)
(* unit of time (DECAY = ln 2 / HALF_LIFE, so exp(t * DECAY) = 2^t): the   *)
(* model value e stands for the f64 ln(e).  frecency = 0 is the value 1,   *)
(* and the order of the model values is the order of the frecencies.  The  *)
(* arithmetic is exact.                                                    *)
(***************************************************************************)
EXTENDS Integers, Sequences, FiniteSets, TLC

\* The invocations of the tool that can run against the one backing file.
Procs == {1, 2}

\* Latest clock value, in half-lives since the epoch.
MaxClock == 1

\* Largest frecency a start_server call may store, as exp(frecency).
MaxFrecency == 3

\* Project names the caller passes: "a", "a/" and "b".
ProjectNames == { <<97>>, <<97, 47>>, <<98>> }

\* New names the caller passes to a rename: "" and "b".
NewNames == { <<>>, <<98>> }

\* Start commands the caller passes ("npm run <script>").
StartCommands == { "npm run dev", "npm run start" }

\* The configured servers directory, "/s".
ServersDir == << <<47>>, <<115>> >>

VARIABLES
    file,     \* the backing file: absent, malformed, or a list of raw servers
    store,    \* store[p]: the servers map of the store invocation p loaded
    pc,       \* pc[p]: "unloaded", "ready", or "launch" (inside start_server)
    last,     \* the most recent operation and what it did
    now,      \* the wall clock
    prev      \* the operation before the most recent one, kept where
              \* invocations run concurrently

vars == <<file, store, pc, last, now, prev>>

----------------------------------------------------------------------------
\* Strings and paths

\* String::cmp: byte-wise lexicographic order, a proper prefix first.
RECURSIVE NameLess(_, _)
NameLess(a, b) ==
    IF b = <<>> THEN FALSE
    ELSE IF a = <<>> THEN TRUE
    ELSE IF a[1] # b[1] THEN a[1] < b[1]
    ELSE NameLess(Tail(a), Tail(b))

\* Path::components of a relative string: split at "/", empty components
\* (repeated or trailing separators) dropped.
RECURSIVE SplitComponents(_, _)
SplitComponents(s, cur) ==
    IF s = <<>> THEN (IF cur = <<>> THEN <<>> ELSE <<cur>>)
    ELSE IF s[1] = 47
         THEN (IF cur = <<>> THEN <<>> ELSE <<cur>>) \o SplitComponents(Tail(s), <<>>)
         ELSE SplitComponents(Tail(s), Append(cur, s[1]))

Components(s) == SplitComponents(s, <<>>)

\* PathBuf::join: an absolute argument replaces the base.
Join(base, name) ==
    IF name # <<>> /\ name[1] = 47
    THEN << <<47>> >> \o Components(name)
    ELSE base \o Components(name)

----------------------------------------------------------------------------
\* Server entity

Pow2(n) == 2 ^ n

\* frecency: 0f64
FrecencyZero == Pow2(0)

ServerNew(name, start_command) ==
    [name |-> name,
     dir |-> Join(ServersDir, name),
     start_command |-> start_command,
     frecency |-> FrecencyZero]

\* from_raw that does not take the frecency over from the raw server.
FromRawWithoutFrecency(raw) ==
    [name |-> raw.name,
     dir |-> Join(ServersDir, raw.name),
     start_command |-> raw.start_command,
     frecency |-> FrecencyZero]

FromRaw(raw) ==
    [name |-> raw.name,
     dir |-> Join(ServersDir, raw.name),
     start_command |-> raw.start_command,
     frecency |-> raw.frecency]

IntoRaw(server) ==
    [name |-> server.name,
     start_command |-> server.start_command,
     frecency |-> server.frecency]

GetWeight(server) == server.frecency

----------------------------------------------------------------------------
\* Persisted form

AbsentFile == [kind |-> "absent", servers |-> <<>>]

MalformedFile == [kind |-> "malformed", servers |-> <<>>]

EmptyServers == <<>>

\* The sort with the comparison the wrong way round.
RECURSIVE SortByNameDescending(_, _)
SortByNameDescending(servers, keys) ==
    IF keys = {} THEN <<>>
    ELSE LET first == CHOOSE k \in keys :
                 \A other \in keys \ {k} :
                     ~NameLess(servers[k].name, servers[other].name)
         IN <<IntoRaw(servers[first])>>
                \o SortByNameDescending(servers, keys \ {first})

\* servers.sort_by(|server1, server2| server1.name.cmp(&server2.name)) applied
\* to the values of the map, each turned into its raw form.
RECURSIVE SortByName(_, _)
SortByName(servers, keys) ==
    IF keys = {} THEN <<>>
    ELSE LET first == CHOOSE k \in keys :
                 \A other \in keys \ {k} :
                     ~NameLess(servers[other].name, servers[k].name)
         IN <<IntoRaw(servers[first])>> \o SortByName(servers, keys \ {first})

Serialize(servers) == SortByName(servers, DOMAIN servers)

\* The raw vector collected into a map keyed by name: a later element with
\* the same name replaces an earlier one.
Deserialize(raws) ==
    LET names == { raws[i].name : i \in DOMAIN raws }
        lastIndex(n) == CHOOSE i \in DOMAIN raws :
                            /\ raws[i].name = n
                            /\ \A j \in DOMAIN raws : raws[j].name = n => j <= i
    IN [n \in names |-> FromRaw(raws[lastIndex(n)])]

\* The file after a write of the store that succeeds.
FlushedFile(servers) == [kind |-> "store", servers |-> Serialize(servers)]

----------------------------------------------------------------------------
\* Store helpers

Insert(servers, name, server) ==
    [n \in (DOMAIN servers) \cup {name} |->
        IF n = name THEN server ELSE servers[n]]

\* remove that takes some other server out when the name is not there.
RemoveSomeServer(servers, name) ==
    IF name \in DOMAIN servers \/ DOMAIN servers = {}
    THEN [n \in (DOMAIN servers) \ {name} |-> servers[n]]
    ELSE LET other == CHOOSE n \in DOMAIN servers : TRUE
         IN [n \in (DOMAIN servers) \ {other} |-> servers[n]]

Remove(servers, name) ==
    [n \in (DOMAIN servers) \ {name} |-> servers[n]]

ContainsKey(servers, name) == name \in DOMAIN servers

\* get_one: Some(server) as the one-element set, None as the empty set.
GetOne(servers, name) ==
    IF ContainsKey(servers, name) THEN {servers[name]} ELSE {}

\* get_all
GetAll(servers) == { servers[n] : n \in DOMAIN servers }

\* The update without the increment of the score.
NewFrecencyWithoutIncrement(frecency, t) ==
    LET expNowDecay == Pow2(t)
        score == [num |-> frecency, den |-> expNowDecay]
    IN (score.num * expNowDecay) \div score.den

\* The update that stores ln(new_score) without adding now_decay back.
NewFrecencyWithoutNowDecay(frecency, t) ==
    LET expNowDecay == Pow2(t)
        score == [num |-> frecency, den |-> expNowDecay]
        newScore == [num |-> score.num + score.den, den |-> score.den]
    IN newScore.num \div newScore.den

\* The update that takes the run off the score: new_score = score - 1.
NewFrecencyOfLoweredScore(frecency, t) ==
    LET expNowDecay == Pow2(t)
        score == [num |-> frecency, den |-> expNowDecay]
        newScore == [num |-> score.num - score.den, den |-> score.den]
    IN (newScore.num * expNowDecay) \div newScore.den

\* The frecency update of start_server at clock t.  now_decay = t * DECAY,
\* so exp(now_decay) = 2^t; score = exp(frecency - now_decay) is the rational
\* frecency / 2^t; new_score = score + 1; the stored result
\* ln(new_score) + now_decay is new_score * 2^t.
NewFrecency(frecency, t) ==
    LET expNowDecay == Pow2(t)
        score == [num |-> frecency, den |-> expNowDecay]
        newScore == [num |-> score.num + score.den, den |-> score.den]
    IN (newScore.num * expNowDecay) \div newScore.den

\* The record of the most recent operation: which invocation called what,
\* whether the name was a key of its store, how the call ended, how often it
\* called flush, what Server::start returned, and the servers map a
\* successful flush serialized.
Op(proc, op, name, command, outcome, flushes, launch, written) ==
    [proc |-> proc, op |-> op, name |-> name, command |-> command,
     known |-> (proc \in Procs /\ name \in DOMAIN store[proc]),
     outcome |-> outcome, flushes |-> flushes, launch |-> launch,
     written |-> written, new_name |-> <<>>, package_json |-> "none",
     suggestion |-> <<>>, ranking |-> <<>>]

NoOp ==
    [proc |-> 0, op |-> "none", name |-> <<>>, command |-> "", known |-> FALSE,
     outcome |-> "none", flushes |-> 0, launch |-> "none",
     written |-> EmptyServers, new_name |-> <<>>, package_json |-> "none",
     suggestion |-> <<>>, ranking |-> <<>>]

\* A panic ends the invocation.
Panicked(p) ==
    /\ pc' = [pc EXCEPT ![p] = "unloaded"]
    /\ store' = [store EXCEPT ![p] = EmptyServers]

----------------------------------------------------------------------------
\* Operations

Init ==
    /\ file \in {AbsentFile, MalformedFile, FlushedFile(EmptyServers)}
    /\ store = [p \in Procs |-> EmptyServers]
    /\ pc = [p \in Procs |-> "unloaded"]
    /\ last = NoOp
    /\ now = 0
    /\ prev = NoOp

\* ServerStore::load: read_to_string(..).expect(..), from_str(..).expect(..)
Load(p) ==
    /\ pc[p] = "unloaded"
    /\ IF file.kind = "store"
       THEN /\ store' = [store EXCEPT ![p] = Deserialize(file.servers)]
            /\ pc' = [pc EXCEPT ![p] = "ready"]
            /\ last' = Op(p, "load", <<>>, "", "Ok", 0, "none", EmptyServers)
       ELSE /\ Panicked(p)
            /\ last' = Op(p, "load", <<>>, "", "Panic", 0, "none", EmptyServers)
    /\ UNCHANGED <<file, now>>

\* What fs::write can do: write the whole text, fail before it has touched
\* the file, or fail after it has truncated the file.
WriteResults == {"written", "refused", "torn"}

\* flush() when fs::write fails: .expect("Error writing server store")
\* panics, and a torn write leaves text that is no server store.
FlushFails(p, result, op, name, command) ==
    /\ result # "written"
    /\ Panicked(p)
    /\ last' = Op(p, op, name, command, "Panic", 1, "none", EmptyServers)
    /\ file' = IF result = "torn" THEN MalformedFile ELSE file

\* add_server that stores the server without its start command.
AddServerWithoutCommand(p, project_name, start_command) ==
    /\ pc[p] = "ready"
    /\ file' = FlushedFile(Insert(store[p], project_name,
                                  ServerNew(project_name, "")))
    /\ last' = Op(p, "add_server", project_name, start_command, "Ok", 1, "none",
                  Insert(store[p], project_name, ServerNew(project_name, "")))
    /\ UNCHANGED <<store, pc, now>>

\* add_server that inserts into the servers the file holds now.
AddServerToFile(p, project_name, start_command) ==
    /\ pc[p] = "ready"
    /\ file' = FlushedFile(Insert(Deserialize(file.servers), project_name,
                                  ServerNew(project_name, start_command)))
    /\ last' = Op(p, "add_server", project_name, start_command, "Ok", 1, "none",
                  Insert(Deserialize(file.servers), project_name,
                         ServerNew(project_name, start_command)))
    /\ UNCHANGED <<store, pc, now>>

\* add_server that inserts into the store it is called on, not into a clone.
AddServerInPlace(p, project_name, start_command) ==
    /\ pc[p] = "ready"
    /\ store' = [store EXCEPT ![p] = Insert(store[p], project_name,
                                            ServerNew(project_name, start_command))]
    /\ file' = FlushedFile(store'[p])
    /\ last' = Op(p, "add_server", project_name, start_command, "Ok", 1, "none",
                  store'[p])
    /\ UNCHANGED <<pc, now>>

\* ServerStore::add_server
AddServer(p, project_name, start_command) ==
    /\ pc[p] = "ready"
    /\ LET new_store == Insert(store[p], project_name,
                               ServerNew(project_name, start_command))
       IN \E result \in WriteResults :
            \/ /\ result = "written"
               /\ file' = FlushedFile(new_store)
               /\ last' = Op(p, "add_server", project_name, start_command,
                             "Ok", 1, "none", new_store)
               /\ UNCHANGED <<store, pc>>
            \/ FlushFails(p, result, "add_server", project_name, start_command)
    /\ UNCHANGED now

\* set_server_start_command that inserts and writes a server for a name it
\* does not know before it fails.
SetServerStartCommandWritesUnknown(p, server_name, start_command) ==
    /\ pc[p] = "ready"
    /\ ~ContainsKey(store[p], server_name)
    /\ Panicked(p)
    /\ file' = FlushedFile(Insert(store[p], server_name,
                                  ServerNew(server_name, start_command)))
    /\ last' = Op(p, "set_server_start_command", server_name, start_command,
                  "Panic", 0, "none", EmptyServers)
    /\ UNCHANGED now

\* set_server_start_command that puts a new server in the place of the old.
SetServerStartCommandResetsFrecency(p, server_name, start_command) ==
    /\ pc[p] = "ready"
    /\ ContainsKey(store[p], server_name)
    /\ file' = FlushedFile(Insert(store[p], server_name,
                                  ServerNew(server_name, start_command)))
    /\ last' = Op(p, "set_server_start_command", server_name, start_command,
                  "Ok", 1, "none",
                  Insert(store[p], server_name,
                         ServerNew(server_name, start_command)))
    /\ UNCHANGED <<store, pc, now>>

\* ServerStore::set_server_start_command
SetServerStartCommand(p, server_name, start_command) ==
    /\ pc[p] = "ready"
    /\ IF ~ContainsKey(store[p], server_name)
       THEN \* panic!("Invalid server name {}", server_name)
            /\ Panicked(p)
            /\ last' = Op(p, "set_server_start_command", server_name,
                          start_command, "Panic", 0, "none", EmptyServers)
            /\ UNCHANGED file
       ELSE LET new_store ==
                    [store[p] EXCEPT ![server_name].start_command = start_command]
            IN \E result \in WriteResults :
                 \/ /\ result = "written"
                    /\ file' = FlushedFile(new_store)
                    /\ last' = Op(p, "set_server_start_command", server_name,
                                  start_command, "Ok", 1, "none", new_store)
                    /\ UNCHANGED <<store, pc>>
                 \/ FlushFails(p, result, "set_server_start_command",
                               server_name, start_command)
    /\ UNCHANGED now

\* start_server that goes on to launch the server without having flushed.
StartServerWithoutFlush(p, server_name) ==
    /\ pc[p] = "ready"
    /\ ContainsKey(store[p], server_name) =>
           NewFrecency(store[p][server_name].frecency, now) <= MaxFrecency
    /\ ContainsKey(store[p], server_name)
    /\ last' = Op(p, "start_server", server_name, "", "running", 1, "pending",
                  [store[p] EXCEPT ![server_name].frecency =
                      NewFrecency(store[p][server_name].frecency, now)])
    /\ pc' = [pc EXCEPT ![p] = "launch"]
    /\ UNCHANGED <<file, store, now>>

\* ServerStore::start_server up to and including new_store.flush()
StartServerFlush(p, server_name) ==
    /\ pc[p] = "ready"
    /\ ContainsKey(store[p], server_name) =>
           NewFrecency(store[p][server_name].frecency, now) <= MaxFrecency
    /\ IF ~ContainsKey(store[p], server_name)
       THEN \* panic!("Invalid server name {}", server_name)
            /\ Panicked(p)
            /\ last' = Op(p, "start_server", server_name, "", "Panic", 0,
                          "none", EmptyServers)
            /\ UNCHANGED file
       ELSE LET new_store ==
                    [store[p] EXCEPT ![server_name].frecency =
                        NewFrecency(store[p][server_name].frecency, now)]
            IN \E result \in WriteResults :
                 \/ /\ result = "written"
                    /\ file' = FlushedFile(new_store)
                    /\ last' = Op(p, "start_server", server_name, "", "running",
                                  1, "pending", new_store)
                    /\ pc' = [pc EXCEPT ![p] = "launch"]
                    /\ UNCHANGED store
                 \/ FlushFails(p, result, "start_server", server_name, "")
    /\ UNCHANGED now

\* Server::start: Ok(()) when the command could be executed, RunScript
\* otherwise.
ServerStart(executed) == IF executed THEN "Ok" ELSE "RunScript"

\* The value start_server returns given what Server::start returned: the
\* statement `new_store.servers.get(server_name).unwrap().start();` drops it.
StartServerResult(started) == "Ok"

\* start_server that flushes the store it was called on after the launch.
StartServerLaunchFlushesSelf(p) ==
    /\ pc[p] = "launch"
    /\ last' = [last EXCEPT !.launch = "Ok", !.outcome = "Ok", !.flushes = 2]
    /\ file' = FlushedFile(store[p])
    /\ pc' = [pc EXCEPT ![p] = "ready"]
    /\ UNCHANGED <<store, now>>

\* ServerStore::start_server from the call of Server::start to its return
StartServerLaunch(p) ==
    /\ pc[p] = "launch"
    /\ \E executed \in BOOLEAN :
         last' = [last EXCEPT !.launch = ServerStart(executed),
                              !.outcome = StartServerResult(ServerStart(executed))]
    /\ pc' = [pc EXCEPT ![p] = "ready"]
    /\ UNCHANGED <<file, store, now>>

\* ServerStore::remove_server
RemoveServer(p, server_name) ==
    /\ pc[p] = "ready"
    /\ LET new_store == Remove(store[p], server_name)
       IN \E result \in WriteResults :
            \/ /\ result = "written"
               /\ file' = FlushedFile(new_store)
               /\ last' = Op(p, "remove_server", server_name, "", "Ok", 1,
                             "none", new_store)
               /\ UNCHANGED <<store, pc>>
            \/ FlushFails(p, result, "remove_server", server_name, "")
    /\ UNCHANGED now

\* set_server_name that renames over a server that holds the new name.
SetServerNameOverExisting(p, server_name, new_name) ==
    /\ pc[p] = "ready"
    /\ ContainsKey(store[p], server_name)
    /\ file' = FlushedFile(Insert(Remove(store[p], server_name), new_name,
                                  [store[p][server_name] EXCEPT !.name = new_name]))
    /\ last' = [Op(p, "set_server_name", server_name, "", "Ok", 1, "none",
                   Insert(Remove(store[p], server_name), new_name,
                          [store[p][server_name] EXCEPT !.name = new_name]))
                EXCEPT !.new_name = new_name]
    /\ UNCHANGED <<store, pc, now>>

\* set_server_name(old_name, new_name) as the specification gives it:
\* EmptyServerName for an empty new name, DuplicateServerName when another
\* server holds the new name, NonExistentServer when the old name is
\* unknown; otherwise the record is renamed in a clone and the clone flushed.
SetServerName(p, server_name, new_name) ==
    /\ pc[p] = "ready"
    /\ LET failure ==
               IF new_name = <<>> THEN "EmptyServerName"
               ELSE IF new_name # server_name /\ ContainsKey(store[p], new_name)
                    THEN "DuplicateServerName"
               ELSE IF ~ContainsKey(store[p], server_name)
                    THEN "NonExistentServer"
               ELSE "none"
       IN IF failure # "none"
          THEN /\ last' = [Op(p, "set_server_name", server_name, "", failure, 0,
                              "none", EmptyServers)
                           EXCEPT !.new_name = new_name]
               /\ UNCHANGED <<file, store, pc>>
          ELSE LET renamed == [store[p][server_name] EXCEPT !.name = new_name]
                   new_store == Insert(Remove(store[p], server_name),
                                       new_name, renamed)
               IN \E result \in WriteResults :
                    \/ /\ result = "written"
                       /\ file' = FlushedFile(new_store)
                       /\ last' = [Op(p, "set_server_name", server_name, "",
                                      "Ok", 1, "none", new_store)
                                   EXCEPT !.new_name = new_name]
                       /\ UNCHANGED <<store, pc>>
                    \/ /\ FlushFails(p, result, "set_server_name", server_name, "")
    /\ UNCHANGED now

\* What fs::metadata can find at <servers_dir>/<project_name>/package.json.
PackageJsonStates == { "file", "directory", "missing" }

\* ServerStore::validate_new_project_name: package.json must be there and be
\* a file, and the name must not be a key of the store.
ValidateNewProjectName(p, project_name, package_json) ==
    /\ pc[p] = "ready"
    /\ LET outcome ==
               IF package_json = "missing" THEN "ReadPackageJson"
               ELSE IF package_json # "file" THEN "ReadPackageJson"
               ELSE IF ContainsKey(store[p], project_name) THEN "DuplicateProject"
               ELSE "Ok"
       IN last' = [Op(p, "validate_new_project_name", project_name, "", outcome,
                      0, "none", EmptyServers)
                   EXCEPT !.package_json = package_json]
    /\ UNCHANGED <<file, store, pc, now>>

\* The pad of the n-gram corpus: one space on each side for arity 2.
Pad == <<32>>

\* The bigrams of the padded text, in order, repeats kept.
Grams(text) ==
    LET padded == Pad \o text \o Pad
    IN [i \in 1..(Len(padded) - 1) |-> <<padded[i], padded[i + 1]>>]

\* How often a gram occurs in a text.
GramCount(text, gram) == Cardinality({ i \in DOMAIN Grams(text) : Grams(text)[i] = gram })

Min(a, b) == IF a < b THEN a ELSE b

RECURSIVE SumOver(_, _, _)
SumOver(grams, a, b) ==
    IF grams = {} THEN 0
    ELSE LET g == CHOOSE x \in grams : TRUE
         IN Min(GramCount(a, g), GramCount(b, g)) + SumOver(grams \ {g}, a, b)

\* The grams two texts have in common, counted with multiplicity.
SameGrams(a, b) ==
    SumOver({ Grams(a)[i] : i \in DOMAIN Grams(a) }, a, b)

\* similarity with warp 2: (all^2 - diff^2) / all^2, kept as a fraction.
Similarity(a, b) ==
    LET samegrams == SameGrams(a, b)
        allgrams == Len(Grams(a)) + Len(Grams(b)) - samegrams
        diffgrams == allgrams - samegrams
    IN [num |-> allgrams * allgrams - diffgrams * diffgrams,
        den |-> allgrams * allgrams]

\* Corpus::search(word, 0): only texts that share a gram with the word are
\* scored; the result is what can come first in the descending order.
CorpusSearch(texts, word) ==
    LET considered == { t \in texts : SameGrams(word, t) > 0 }
    IN { t \in considered : \A u \in considered :
           Similarity(word, t).num * Similarity(word, u).den
               >= Similarity(word, u).num * Similarity(word, t).den }

\* ServerStore::get_closest_server_name
GetClosestServerName(p, server_name) ==
    /\ pc[p] = "ready"
    /\ LET results == CorpusSearch(DOMAIN store[p], server_name)
       IN \/ /\ results = {}
             /\ last' = Op(p, "get_closest_server_name", server_name, "", "None",
                           0, "none", EmptyServers)
          \/ \E first \in results :
                last' = [Op(p, "get_closest_server_name", server_name, "", "Some",
                            0, "none", EmptyServers)
                         EXCEPT !.suggestion = first]
    /\ UNCHANGED <<file, store, pc, now>>

\* The orders in which a Vec can hold the values of the map: get_all
\* collects HashMap::values, whose order is arbitrary.
Orders(servers) ==
    { order \in [1..Cardinality(DOMAIN servers) -> DOMAIN servers] :
          \A i, j \in DOMAIN order : i # j => order[i] # order[j] }

\* The comparison of prompt.rs choose_server: the higher weight first, and
\* for equal weights the lesser name first.
WeightThenNameBefore(server1, server2) ==
    \/ GetWeight(server1) > GetWeight(server2)
    \/ /\ GetWeight(server1) = GetWeight(server2)
       /\ NameLess(server1.name, server2.name)

\* The order choose_server of prompt.rs gives the servers.
ChooseServerOrders(servers) ==
    { order \in Orders(servers) :
          \A i, j \in DOMAIN order :
              i < j => WeightThenNameBefore(servers[order[i]], servers[order[j]]) }

\* The orders get_existing_server_from_user of main.rs can give them: the
\* sort is stable and compares the weights only, the higher first, so
\* servers of equal weight stay in the order get_all returned them.
WeightOrders(servers) ==
    { order \in Orders(servers) :
          \A i, j \in DOMAIN order :
              i < j => GetWeight(servers[order[i]]) >= GetWeight(servers[order[j]]) }

\* The command-line argument: None, or Some(name).
CliServerNames == { {} } \cup { {n} : n \in ProjectNames }

\* main.rs get_existing_server_from_user: get_one for a name given on the
\* command line, otherwise the servers of get_all ranked and one of them
\* picked by the user.
GetExistingServerFromUser(p, cli_server_name) ==
    /\ pc[p] = "ready"
    /\ \/ \E server_name \in cli_server_name :
            last' = Op(p, "get_existing_server_from_user", server_name, "",
                       IF GetOne(store[p], server_name) = {} THEN "None" ELSE "Some",
                       0, "none", EmptyServers)
       \/ /\ cli_server_name = {}
          /\ GetAll(store[p]) = {}
          /\ last' = Op(p, "get_existing_server_from_user", <<>>, "", "NoServers",
                        0, "none", EmptyServers)
       \/ /\ cli_server_name = {}
          /\ \E servers \in WeightOrders(store[p]) :
               \E picked \in DOMAIN servers :
                 last' = [Op(p, "get_existing_server_from_user", servers[picked],
                             "", "Picked", 0, "none", EmptyServers)
                          EXCEPT !.ranking = servers]
    /\ UNCHANGED <<file, store, pc, now>>

\* The invocation ends (main returns after its one command).
Exit(p) ==
    /\ pc[p] = "ready"
    /\ pc' = [pc EXCEPT ![p] = "unloaded"]
    /\ store' = [store EXCEPT ![p] = EmptyServers]
    /\ last' = [NoOp EXCEPT !.proc = p, !.op = "exit"]
    /\ UNCHANGED <<file, now>>

\* SystemTime::now() advances.
Tick ==
    /\ now < MaxClock
    /\ now' = now + 1
    /\ UNCHANGED <<file, store, pc, last>>

\* No other invocation is running: the tool is run one command at a time.
Alone(p) == \A q \in Procs \ {p} : pc[q] = "unloaded"

\* An invocation takes the lowest slot that is free.
FirstFree(p) == \A q \in Procs : q < p => pc[q] # "unloaded"

\* No operation has written from the store of p since it was loaded.  What
\* a query answers, and what set_server_name answers and writes, depends on
\* the store only, which no operation changes, so they are taken then.
Unwritten(p) ==
    /\ last.proc = p
    /\ last.op \in {"load", "validate_new_project_name", "get_closest_server_name",
                  "get_existing_server_from_user"}

Next ==
    \/ \E p \in Procs : Alone(p) /\ FirstFree(p) /\ Load(p) /\ UNCHANGED prev
    \/ \E p \in Procs, n \in ProjectNames, c \in StartCommands :
           AddServer(p, n, c) /\ UNCHANGED prev
    \/ \E p \in Procs, n \in ProjectNames, c \in StartCommands :
           SetServerStartCommand(p, n, c) /\ UNCHANGED prev
    \/ \E p \in Procs, n \in ProjectNames : StartServerFlush(p, n) /\ UNCHANGED prev
    \/ \E p \in Procs : StartServerLaunch(p) /\ UNCHANGED prev
    \/ \E p \in Procs, n \in ProjectNames : RemoveServer(p, n) /\ UNCHANGED prev
    \/ \E p \in Procs, n \in ProjectNames, m \in NewNames :
           Unwritten(p) /\ SetServerName(p, n, m) /\ UNCHANGED prev
    \/ \E p \in Procs, n \in ProjectNames, j \in PackageJsonStates :
           Unwritten(p) /\ ValidateNewProjectName(p, n, j) /\ UNCHANGED prev
    \/ \E p \in Procs, n \in ProjectNames :
           Unwritten(p) /\ GetClosestServerName(p, n) /\ UNCHANGED prev
    \/ \E p \in Procs, n \in CliServerNames :
           Unwritten(p) /\ GetExistingServerFromUser(p, n) /\ UNCHANGED prev
    \/ \E p \in Procs : Exit(p) /\ UNCHANGED prev
    \/ Tick /\ UNCHANGED prev

Spec == Init /\ [][Next]_vars

----------------------------------------------------------------------------
\* Invocations that run at the same time

\* The stores a file can hold when the invocations start: any of the
\* projects, added with the first start command and never started.
InitialStores ==
    { [n \in names |-> ServerNew(n, "npm run dev")] : names \in SUBSET ProjectNames }

InitConcurrent ==
    /\ file \in { FlushedFile(servers) : servers \in InitialStores }
    /\ store = [p \in Procs |-> EmptyServers]
    /\ pc = [p \in Procs |-> "unloaded"]
    /\ last = NoOp
    /\ now = 0
    /\ prev = NoOp

\* The invocations load before any of them operates, so they load the same
\* file.
NoOperationYet == last.op \in {"none", "load"}

\* At most one operation has been called so far: the behaviours followed are
\* those of two operations, by one invocation or by two.
OneOperationSoFar == prev.op \in {"none", "load"}

NextConcurrent ==
    \/ \E p \in Procs : NoOperationYet /\ Load(p) /\ prev' = last
    \/ \E p \in Procs, n \in ProjectNames, c \in StartCommands :
           OneOperationSoFar /\ AddServer(p, n, c) /\ prev' = last
    \/ \E p \in Procs, n \in ProjectNames, c \in StartCommands :
           OneOperationSoFar /\ SetServerStartCommand(p, n, c) /\ prev' = last
    \/ \E p \in Procs, n \in ProjectNames :
           OneOperationSoFar /\ StartServerFlush(p, n) /\ prev' = last
    \/ \E p \in Procs : last.proc = p /\ StartServerLaunch(p) /\ UNCHANGED prev
    \/ \E p \in Procs, n \in ProjectNames :
           OneOperationSoFar /\ RemoveServer(p, n) /\ prev' = last
    \/ Tick /\ UNCHANGED prev

SpecConcurrent == InitConcurrent /\ [][NextConcurrent]_vars

----------------------------------------------------------------------------
\* Properties

MutatingOps ==
    {"add_server", "set_server_start_command", "start_server", "remove_server"}

\* The most recent operation wrote the file.
Flushed == last.op \in MutatingOps /\ last.flushes = 1 /\ last.outcome # "Panic"

\* The store a load of the current file yields.
Reloaded == Deserialize(file.servers)

\* The raw records of the file that carry this name.
FileRecords(name) ==
    { file.servers[i] : i \in { j \in DOMAIN file.servers :
                                    file.servers[j].name = name } }

\* C1: round trip.  After add_server, set_server_start_command, start_server
\* or remove_server has flushed a store, loading the written file yields
\* exactly the servers of that store: the same names, and for each name the
\* same directory, start command and frecency.
C1_RoundTrip ==
    Flushed => /\ file.kind = "store"
               /\ Reloaded = last.written

\* C1 witness: a flushed store of two or more servers, one of them started.
C1_Witness ==
    /\ Flushed
    /\ Cardinality(DOMAIN last.written) >= 2
    /\ \E n \in DOMAIN last.written : last.written[n].frecency > FrecencyZero
    /\ \E n \in DOMAIN last.written : last.written[n].frecency = FrecencyZero

\* C2: the list of servers in the file is in strictly ascending
\* lexicographic order of name after every flush.
C2_FileSortedByName ==
    file.kind = "store" =>
        \A i, j \in DOMAIN file.servers :
            i < j => NameLess(file.servers[i].name, file.servers[j].name)

\* C2 witness: a flush has written all three names.
C2_Witness ==
    /\ Flushed
    /\ Len(file.servers) = 3

\* The store the most recent operation was called on (operations work on a
\* clone, so it is the store as it was before the call).
CalledOn == store[last.proc]

\* The invocation of the most recent operation still runs, so its store is
\* there to be looked at.
Alive == last.proc \in Procs /\ pc[last.proc] # "unloaded"

\* A server of the store, under another name, has the directory the
\* candidate name resolves to.
DirectoryTaken(servers, name) ==
    \E n \in DOMAIN servers :
        n # name /\ servers[n].dir = Join(ServersDir, name)

\* C3 (as claimed): add_server for a name already in the store fails with
\* DuplicateServerName and writes nothing.
C3_AddExistingNameFails ==
    (last.op = "add_server" /\ last.known) =>
        /\ last.outcome = "DuplicateServerName"
        /\ last.flushes = 0

\* C4 (as claimed): add_server for a new name whose directory is the
\* directory of an existing server fails with DuplicateServerDir and writes
\* nothing.
C4_AddExistingDirFails ==
    (/\ last.op = "add_server"
     /\ Alive
     /\ ~last.known
     /\ DirectoryTaken(CalledOn, last.name)) =>
        /\ last.outcome = "DuplicateServerDir"
        /\ last.flushes = 0

\* The candidate of the most recent add_server was new in name and
\* directory, and the call succeeded.
AddedNew ==
    /\ last.op = "add_server"
    /\ last.outcome = "Ok"
    /\ Alive
    /\ ~last.known
    /\ ~DirectoryTaken(CalledOn, last.name)

\* C5 (as claimed): after add_server succeeds for a new name and directory,
\* get_one(name) on the store it was called on returns the new server.
C5_AddedServerInCalledStore ==
    AddedNew =>
        GetOne(CalledOn, last.name) = {ServerNew(last.name, last.command)}

\* C5 (amended): after add_server succeeds for a new name and directory,
\* get_one(name) on a store loaded from the backing file returns a server of
\* that name with the given start command and frecency 0, and the file holds
\* exactly one record of that name, with that start command and frecency.
C5_AddedServerRetrievableAfterReload ==
    AddedNew =>
        /\ file.kind = "store"
        /\ GetOne(Reloaded, last.name) = {ServerNew(last.name, last.command)}
        /\ FileRecords(last.name) =
               {[name |-> last.name, start_command |-> last.command,
                 frecency |-> FrecencyZero]}

\* C5 witness: a new server added to a store that already holds another.
C5_Witness ==
    /\ AddedNew
    /\ DOMAIN CalledOn # {}

\* No two servers of the map share a name, and no two share a directory.
UniqueNamesAndDirs(servers) ==
    \A m, n \in DOMAIN servers :
        m # n => /\ servers[m].name # servers[n].name
                 /\ servers[m].dir # servers[n].dir

\* C6 (as claimed): in every store loaded after any sequence of operations
\* no two servers have the same name and no two have the same directory.
C6_UniqueNamesAndDirs ==
    \A p \in Procs : UniqueNamesAndDirs(store[p])

\* The frecency the file holds for the server of the most recent
\* start_server is the updated one, above the frecency before the call.
FileHoldsUpdatedFrecency ==
    /\ file.kind = "store"
    /\ \A r \in FileRecords(last.name) :
           /\ r.frecency = last.written[last.name].frecency
           /\ r.frecency > CalledOn[last.name].frecency
    /\ FileRecords(last.name) # {}

\* C7: whenever start_server has reached the launch of the start command,
\* the file holds the updated frecency of that server, not the pre-call one.
C7_FlushBeforeLaunch ==
    (last.op = "start_server" /\ last.launch # "none" /\ Alive) =>
        FileHoldsUpdatedFrecency

\* C7 witness: start_server is about to launch a server that had been
\* started before.
C7_Witness ==
    /\ last.op = "start_server"
    /\ pc[last.proc] = "launch"
    /\ last.launch = "pending"
    /\ CalledOn[last.name].frecency > FrecencyZero

\* C8 (as claimed): when the launch fails to execute, start_server reports
\* RunScript and the persisted frecency stays the updated one.
C8_FailedLaunchReportsRunScript ==
    (last.op = "start_server" /\ last.launch = "RunScript" /\ Alive) =>
        /\ last.outcome = "RunScript"
        /\ FileHoldsUpdatedFrecency

\* C9 (as claimed): start_server for a name not in the store returns the
\* error NonExistentServer, without a flush and without a launch.
C9_StartUnknownReturnsError ==
    (last.op = "start_server" /\ ~last.known) =>
        /\ last.outcome = "NonExistentServer"
        /\ last.flushes = 0
        /\ last.launch = "none"

\* C10 (as claimed): set_server_start_command for a name not in the store
\* returns the error NonExistentServer and writes nothing; for a known name
\* it flushes a state in which the server has the command.
C10_SetCommandUnknownReturnsError ==
    last.op = "set_server_start_command" =>
        IF last.known
        THEN Flushed =>
                 \A r \in FileRecords(last.name) : r.start_command = last.command
        ELSE /\ last.outcome = "NonExistentServer"
             /\ last.flushes = 0


\* The conditions under which set_server_name must fail.
RenameEmpty == last.new_name = <<>>

RenameDuplicate ==
    last.new_name # last.name /\ ContainsKey(CalledOn, last.new_name)

RenameNonExistent == ~last.known

\* C11: set_server_name fails with EmptyServerName when the new name is
\* empty, and otherwise with DuplicateServerName or NonExistentServer when
\* another server holds the new name or the old name is unknown (the error
\* it gives is one whose condition holds); only when none of the three
\* conditions holds does it flush, and then the file holds the record under
\* the new name and no longer under the old one.
C11_SetServerName ==
    (last.op = "set_server_name" /\ Alive) =>
        /\ RenameEmpty => last.outcome = "EmptyServerName"
        /\ last.outcome = "EmptyServerName" => RenameEmpty
        /\ last.outcome = "DuplicateServerName" => RenameDuplicate
        /\ last.outcome = "NonExistentServer" => RenameNonExistent
        /\ (RenameEmpty \/ RenameDuplicate \/ RenameNonExistent) =>
               /\ last.outcome \in {"EmptyServerName", "DuplicateServerName",
                                    "NonExistentServer"}
               /\ last.flushes = 0
        /\ ~(RenameEmpty \/ RenameDuplicate \/ RenameNonExistent) =>
               /\ last.outcome = "Ok"
               /\ last.flushes = 1
               /\ FileRecords(last.new_name) =
                      {[IntoRaw(CalledOn[last.name]) EXCEPT !.name = last.new_name]}
               /\ last.new_name # last.name => FileRecords(last.name) = {}
               /\ Len(file.servers) = Cardinality(DOMAIN CalledOn)

\* C11 witness: a started server renamed in a store that holds another one.
C11_Witness ==
    /\ last.op = "set_server_name"
    /\ Alive
    /\ last.outcome = "Ok"
    /\ last.new_name # last.name
    /\ Cardinality(DOMAIN CalledOn) >= 2
    /\ CalledOn[last.name].frecency > FrecencyZero


\* The step is the command of a freshly loaded invocation: the operation
\* before it was that invocation's load.
FirstCommand == last.op = "load" /\ last.outcome = "Ok" /\ last'.proc = last.proc

C13_LoadAbsentGivesEmptyStore ==
    (last.op = "load" /\ file.kind = "absent") =>
        /\ last.outcome = "Ok"
        /\ pc[last.proc] = "ready"
        /\ store[last.proc] = EmptyServers

\* C14 (as claimed): load returns the error ParseStore when the file does
\* not conform to the schema; it yields no store and leaves the file alone.
C14_LoadMalformedReturnsParseStore ==
    (last.op = "load" /\ file.kind = "malformed") =>
        /\ last.outcome = "ParseStore"
        /\ store[last.proc] = EmptyServers

\* The most recent operation failed before it reached flush.
FailedValidation(op) ==
    /\ op.op \in {"add_server", "set_server_name", "set_server_start_command",
                  "start_server"}
    /\ op.flushes = 0
    /\ op.outcome \in {"Panic", "EmptyServerName", "DuplicateServerName",
                       "DuplicateServerDir", "NonExistentServer"}

\* C15: a mutating operation that fails validation leaves the file as it
\* was and changes the store of no running invocation: nothing of the
\* change is applied.
C15_FailedValidationChangesNothing ==
    [][FailedValidation(last') =>
          /\ file' = file
          /\ last'.written = EmptyServers
          /\ \A p \in Procs : pc'[p] # "unloaded" => store'[p] = store[p]]_vars

\* C15 witness: the operations that can fail validation have done so, a
\* rename with a returned error and the invocation still running, or a
\* change of start command for an unknown name in a store with servers.
C15_Witness ==
    /\ FailedValidation(last)
    /\ file.kind = "store"
    /\ Len(file.servers) >= 1
    /\ \/ last.op = "set_server_name" /\ Alive /\ last.outcome = "DuplicateServerName"
       \/ last.op = "set_server_start_command"

StartedOnceAt(t) == NewFrecency(FrecencyZero, t)

\* C17: of two persisted servers started once each, the one started at the
\* later time has the greater frecency.
C17_LaterStartRanksHigher ==
    file.kind = "store" =>
        \A i, j \in DOMAIN file.servers :
            \A t1, t2 \in 0..MaxClock :
                (/\ t1 < t2
                 /\ file.servers[i].frecency = StartedOnceAt(t1)
                 /\ file.servers[j].frecency = StartedOnceAt(t2)) =>
                    file.servers[j].frecency > file.servers[i].frecency

\* C17 witness: the file holds a server started once at clock 0 and another
\* started once at a later clock value.
C17_Witness ==
    /\ file.kind = "store"
    /\ last.op = "start_server"
    /\ \E i, j \in DOMAIN file.servers :
           /\ i # j
           /\ file.servers[i].frecency = StartedOnceAt(0)
           /\ file.servers[j].frecency = StartedOnceAt(now)
           /\ now > 0
           /\ file.servers[j].name = last.name

\* C20 (as claimed): a flush that cannot write reports WriteStore, and one
\* that cannot serialize reports StringifyStore; the process is not aborted.
C20_FlushFailureReturnsError ==
    (last.flushes = 1 /\ last.outcome \notin {"Ok", "running"}) =>
        last.outcome \in {"WriteStore", "StringifyStore"}

C19_ValidateRejectsNameAndDir ==
    (/\ last.op = "validate_new_project_name"
     /\ Alive
     /\ last.package_json = "file") =>
        /\ last.outcome = "Ok" <=>
               (~last.known /\ ~DirectoryTaken(CalledOn, last.name))
        /\ last.outcome # "Ok" =>
               last.outcome \in {"DuplicateProject", "DuplicateServerName",
                                 "DuplicateServerDir"}

\* The operations that change the persisted servers.
StoreOperations == MutatingOps \cup {"set_server_name"}

\* The read accessors, as the program calls them.
ReadAccessors == {"get_existing_server_from_user", "get_closest_server_name"}

\* C21: an operation that applies its change calls flush exactly once and
\* the file is what that flush wrote; one that fails validation calls it
\* zero times and the file is untouched; the launch that follows the flush of
\* start_server does not flush again; and get_one, get_all (both through
\* get_existing_server_from_user) and get_closest_server_name neither flush
\* nor change file or store.
C21_FlushOncePerChange ==
    [][/\ last'.flushes \in {0, 1}
       /\ (last' # last /\ last'.op \in StoreOperations
                        /\ last'.proc \in Procs /\ pc[last'.proc] = "ready") =>
              /\ last'.outcome \in {"Ok", "running"} =>
                     /\ last'.flushes = 1
                     /\ file' = FlushedFile(last'.written)
              /\ (/\ last'.op \in {"set_server_start_command", "start_server"}
                  /\ ~last'.known) =>
                     last'.flushes = 0
              /\ last'.outcome \in {"EmptyServerName", "DuplicateServerName",
                                    "NonExistentServer"} =>
                     last'.flushes = 0
              /\ last'.flushes = 0 => file' = file
       /\ (last'.proc \in Procs /\ pc[last'.proc] = "launch") =>
              /\ last'.flushes = last.flushes
              /\ file' = file
       /\ last'.op \in ReadAccessors =>
              /\ last'.flushes = 0
              /\ file' = file
              /\ store' = store]_vars

\* C21 witness: start_server has flushed, launched and returned.
C21_Witness ==
    /\ last.op = "start_server"
    /\ last.launch = "Ok"
    /\ last.outcome = "Ok"
    /\ last.flushes = 1
    /\ Alive
    /\ Cardinality(DOMAIN CalledOn) >= 2

\* Every server but the named one is in both maps and the same in both.
OthersUnchanged(before, after, name) ==
    /\ DOMAIN after = DOMAIN before
    /\ \A n \in (DOMAIN before) \ {name} : after[n] = before[n]

\* C22: after a successful set_server_start_command(name, command) the
\* persisted servers are those of the store it was called on with only the
\* start command of name changed; after a successful start_server(name),
\* with only the frecency of name changed; the set of names is the same.
C22_OnlyNamedFieldChanges ==
    (/\ last.op \in {"set_server_start_command", "start_server"}
     /\ last.outcome \in {"Ok", "running"}
     /\ Alive) =>
        /\ file.kind = "store"
        /\ OthersUnchanged(CalledOn, Reloaded, last.name)
        /\ last.op = "set_server_start_command" =>
               Reloaded[last.name] =
                   [CalledOn[last.name] EXCEPT !.start_command = last.command]
        /\ last.op = "start_server" =>
               /\ [Reloaded[last.name] EXCEPT !.frecency = 0] =
                      [CalledOn[last.name] EXCEPT !.frecency = 0]
               /\ Reloaded[last.name].frecency > CalledOn[last.name].frecency

\* C22 witness: the start command of a started server was changed in a
\* store of two or more servers.
C22_Witness ==
    /\ last.op = "set_server_start_command"
    /\ last.outcome = "Ok"
    /\ Alive
    /\ Cardinality(DOMAIN CalledOn) >= 2
    /\ CalledOn[last.name].frecency > FrecencyZero
    /\ CalledOn[last.name].start_command # last.command

\* C24: every persisted frecency is a number that is finite and not
\* negative.  The model holds exp(frecency): a value of 0 or less would be
\* the exponential of no finite number (ln gives -Infinity or NaN), and a
\* value below exp(0) a negative frecency.
C24_FrecencyFiniteNonNegative ==
    file.kind = "store" =>
        \A i \in DOMAIN file.servers :
            /\ file.servers[i].frecency \in Nat
            /\ file.servers[i].frecency >= FrecencyZero

\* C24 witness: the file holds a server that was started twice and one that
\* was never started.
C24_Witness ==
    /\ file.kind = "store"
    /\ \E i, j \in DOMAIN file.servers :
           /\ file.servers[i].frecency >= NewFrecency(NewFrecency(FrecencyZero, 0), 0)
           /\ file.servers[j].frecency = FrecencyZero

\* C25 (as claimed): the servers ranked for selection are in descending
\* order of frecency, servers of equal frecency in ascending order of name.
C25_RankedByFrecencyThenName ==
    (last.op = "get_existing_server_from_user" /\ last.outcome = "Picked" /\ Alive) =>
        last.ranking \in ChooseServerOrders(CalledOn)

\* C27 (as claimed): the directory of every server of a store is the servers
\* directory joined with its name, and two servers of a store with equal
\* directories have equal names.
C27_DirectoryDeterminesName ==
    \A p \in Procs :
        /\ \A n \in DOMAIN store[p] :
               store[p][n].dir = Join(ServersDir, store[p][n].name)
        /\ \A m, n \in DOMAIN store[p] :
               store[p][m].dir = store[p][n].dir =>
                   store[p][m].name = store[p][n].name

\* The operation changed the persisted servers: its flush wrote the file.
Wrote(op) ==
    /\ op.op \in MutatingOps
    /\ op.flushes = 1
    /\ op.outcome \in {"Ok", "running"}

\* Apart from the named server the two maps hold the same servers.
SameApartFrom(before, after, name) ==
    /\ (DOMAIN after) \ {name} = (DOMAIN before) \ {name}
    /\ \A n \in (DOMAIN before) \ {name} : after[n] = before[n]

\* The named server is in `after` what the operation makes of it in `before`.
NamedAsOperationLeaves(op, before, after) ==
    /\ op.op = "add_server" =>
           GetOne(after, op.name) = {ServerNew(op.name, op.command)}
    /\ op.op = "set_server_start_command" =>
           GetOne(after, op.name) =
               {[before[op.name] EXCEPT !.start_command = op.command]}
    /\ op.op = "start_server" =>
           \E t \in 0..now :
               GetOne(after, op.name) =
                   {[before[op.name] EXCEPT
                        !.frecency = NewFrecency(before[op.name].frecency, t)]}
    /\ op.op = "remove_server" => GetOne(after, op.name) = {}

\* The file holds the loaded servers with the change of the most recent
\* operation, and with no other change.
FileIsLoadedPlusLastChange ==
    /\ file = FlushedFile(last.written)
    /\ SameApartFrom(CalledOn, Reloaded, last.name)
    /\ NamedAsOperationLeaves(last, CalledOn, Reloaded)

\* C23: when two invocations have loaded the same file and each has then
\* changed it, the file is what the later flush wrote: the loaded servers
\* with the later invocation's change, without the earlier one's.
C23_LastFlushWins ==
    (/\ Wrote(last) /\ Wrote(prev)
     /\ prev.proc # last.proc
     /\ store[prev.proc] = store[last.proc]) =>
        FileIsLoadedPlusLastChange

\* C23 witness: two invocations have each added a new server, not the same
\* one, to the store of one server they both loaded.
C23_Witness ==
    /\ Wrote(last) /\ Wrote(prev)
    /\ prev.proc # last.proc
    /\ store[prev.proc] = store[last.proc]
    /\ Cardinality(DOMAIN CalledOn) = 1
    /\ prev.op = "add_server" /\ ~prev.known
    /\ last.op = "add_server" /\ ~last.known
    /\ prev.name # last.name

\* C26: no operation changes the store it is called on, so that store stays
\* the loaded one; and after a second operation on the same store the file
\* holds the loaded servers with the second change only.
C26_OperationsWorkOnClone ==
    [][/\ \A p \in Procs :
              (pc[p] # "unloaded" /\ pc'[p] # "unloaded") => store'[p] = store[p]
       /\ (/\ Wrote(last') /\ Wrote(prev')
           /\ prev'.proc = last'.proc
           /\ pc'[last'.proc] # "unloaded") =>
              FileIsLoadedPlusLastChange']_vars

\* C26 witness: one invocation has added a new server and then started a
\* server of the store it loaded; the store is still without the new server.
C26_Witness ==
    /\ Wrote(last) /\ Wrote(prev)
    /\ prev.proc = last.proc
    /\ Alive
    /\ prev.op = "add_server" /\ ~prev.known
    /\ last.op = "start_server" /\ last.outcome = "Ok"
    /\ Cardinality(DOMAIN CalledOn) >= 2
    /\ ~ContainsKey(CalledOn, prev.name)

====
